---- MODULE Spec2Model ----
(***************************************************************************)
(* Model of the email index maintenance of ram_chat:                       *)
(*   src/vector_store.py     initialize_email_vector_store,                *)
(*                           update_email_vector_store_manual              *)
(*   src/email_downloader.py fetch_emails_for_embedding,                   *)
(*                           create_langchain_documents_from_emails        *)
(* The persisted Chroma collection is a sequence of entries keyed by id,   *)
(* the mailbox is a set of immutable messages, and every maintenance       *)
(* operation is a sequence of steps (discard/open, authenticate, fetch,    *)
(* write) of one controller whose position is pc.                          *)
(***************************************************************************)
EXTENDS Integers, Sequences, FiniteSets, TLC

(* ---------------- bounds of the model ---------------- *)
\* ticks of the clock in one calendar day (strftime('%Y/%m/%d') drops them)
TicksPerDay == 2
\* largest update window, in days, the operator passes as days_to_check
MaxWindow == 1
\* ticks the clock may advance after the start of the run
MaxTicks == 1

\* the run starts one day after the oldest instant a message can carry;
\* a window of more days reaches before every message
NowStart == TicksPerDay
MaxNow == NowStart + MaxTicks
Ticks == 0..MaxNow
Windows == 0..MaxWindow

\* message ids Gmail assigned (message_info['id'])
Ids == {"m1", "m2"}
\* listing order of messages().list
IdOrder == <<"m1", "m2">>
\* body texts a fetch can deliver for a message
Bodies == {"b1", "b2"}

(* ---------------- dates ---------------- *)
\* A Date header is <<"rfc2822", t>> when well formed (t the instant it
\* names), <<"garbage">> when not, <<>> when empty.
DateHeader(t) == <<"rfc2822", t>>
GarbageDate == <<"garbage">>

\* email.utils.parsedate_to_datetime + int(dt.timestamp()): the timestamp
\* as <<t>>, or <<>> (None) when parsing raises
ParseDate(date) ==
  IF Len(date) = 2 /\ date[1] = "rfc2822" THEN <<date[2]>> ELSE <<>>

\* strftime('%Y/%m/%d') of an instant: its calendar day
DayOf(t) == t \div TicksPerDay

(* ---------------- Document normalizer ---------------- *)
\* the literal text of the f-string of page_content
TemplateText == "'sender': 'date_str': 'subject': 'timestamp': 'body':"

PageContent(email_data, timestamp) ==
  [template  |-> TemplateText,
   sender    |-> email_data.sender,
   date_str  |-> email_data.date,
   subject   |-> email_data.subject,
   timestamp |-> timestamp,
   body      |-> email_data.body]

\* the text {timestamp} is formatted to: "None" or the digits
TimestampText(timestamp) == IF timestamp = <<>> THEN "None" ELSE "digits"

\* bool(doc.page_content): a Python string is truthy unless every piece of
\* it is empty
ContentTruthy(page_content) ==
  \/ page_content.template # ""
  \/ page_content.sender # ""
  \/ page_content.date_str # <<>>
  \/ page_content.subject # ""
  \/ TimestampText(page_content.timestamp) # ""
  \/ page_content.body # ""

MakeDocument(email_data) ==
  LET timestamp == ParseDate(email_data.date) IN
  [page_content |-> PageContent(email_data, timestamp),
   metadata |-> [source     |-> "gmail",
                 message_id |-> email_data.id,
                 sender     |-> email_data.sender,
                 date_str   |-> email_data.date,
                 subject    |-> email_data.subject,
                 timestamp  |-> timestamp]]

\* a validation that also wants a parsed date
KeepsItemDated(email_data) ==
  /\ ContentTruthy(MakeDocument(email_data).page_content)
  /\ email_data.id # ""
  /\ MakeDocument(email_data).metadata.timestamp # <<>>

\* "if doc.page_content and email_data['id']": the validation of one item,
\* kept when there is content and an id
KeepsItem(email_data) ==
  ContentTruthy(MakeDocument(email_data).page_content) /\ email_data.id # ""

\* a normalizer that appends the id before it validates the item
create_langchain_documents_ids_first(email_data_list) ==
  LET kept == SelectSeq(email_data_list, KeepsItem) IN
  [documents |-> [k \in 1..Len(kept) |-> MakeDocument(kept[k])],
   doc_ids |-> [k \in 1..Len(email_data_list) |-> email_data_list[k].id],
   skipped_count |-> Len(email_data_list) - Len(kept)]

\* a normalizer that gives up at the first item it skips
create_langchain_documents_until_skip(email_data_list) ==
  LET n == Len(email_data_list)
      stop == IF \E k \in 1..n : ~KeepsItem(email_data_list[k])
              THEN CHOOSE k \in 1..n :
                     /\ ~KeepsItem(email_data_list[k])
                     /\ \A j \in 1..(k-1) : KeepsItem(email_data_list[j])
              ELSE n + 1
  IN [documents |-> [k \in 1..(stop-1) |-> MakeDocument(email_data_list[k])],
      doc_ids |-> [k \in 1..(stop-1) |-> email_data_list[k].id],
      skipped_count |-> IF stop <= n THEN 1 ELSE 0]

\* the loop over email_data_list; skipped_count is a local that is printed,
\* the function returns (documents, doc_ids)
RECURSIVE create_langchain_documents_from_emails(_)
create_langchain_documents_from_emails(email_data_list) ==
  IF email_data_list = <<>>
  THEN [documents |-> <<>>, doc_ids |-> <<>>, skipped_count |-> 0]
  ELSE LET email_data == Head(email_data_list)
           rest == create_langchain_documents_from_emails(Tail(email_data_list))
       IN IF KeepsItem(email_data)
          THEN [documents |-> <<MakeDocument(email_data)>> \o rest.documents,
                doc_ids |-> <<email_data.id>> \o rest.doc_ids,
                skipped_count |-> rest.skipped_count]
          ELSE [documents |-> rest.documents,
                doc_ids |-> rest.doc_ids,
                skipped_count |-> rest.skipped_count + 1]

(* ---------------- the Chroma collection ---------------- *)
\* An entry of the collection: the key it is stored under and the Document.
EntryIds(store) == {store[i].id : i \in 1..Len(store)}

HasId(store, id) == \E i \in 1..Len(store) : store[i].id = id

\* the Document stored under id (the first one, were there several)
DocOf(store, id) ==
  store[CHOOSE i \in 1..Len(store) :
          store[i].id = id /\ \A j \in 1..(i-1) : store[j].id # id].doc

\* a mutant: the Document is appended, whatever is stored under its id
UpsertOneAppend(store, id, doc) == Append(store, [id |-> id, doc |-> doc])

\* one upsert of the collection: the entry with this id is replaced in
\* place, a new id is appended
UpsertOne(store, id, doc) ==
  IF HasId(store, id)
  THEN [i \in 1..Len(store) |->
          IF store[i].id = id THEN [id |-> id, doc |-> doc] ELSE store[i]]
  ELSE Append(store, [id |-> id, doc |-> doc])

RECURSIVE UpsertFrom(_, _, _, _)
UpsertFrom(store, documents, ids, k) ==
  IF k > Len(documents) THEN store
  ELSE UpsertFrom(UpsertOne(store, ids[k], documents[k]), documents, ids, k + 1)

\* a mutant: every Document is appended, whatever is stored under its id
AppendAll(store, documents, ids) ==
  store \o [k \in 1..Len(documents) |-> [id |-> ids[k], doc |-> documents[k]]]

\* a mutant: the collection is created anew from the batch
ReplaceAll(store, documents, ids) ==
  [k \in 1..Len(documents) |-> [id |-> ids[k], doc |-> documents[k]]]

\* a mutant: only the first Document of the batch is stored
AddFirstOnly(store, documents, ids) ==
  UpsertFrom(store, SubSeq(documents, 1, 1), SubSeq(ids, 1, 1), 1)

\* a mutant: a write that raises has already stored the first Document
FailedWritePartial(store, documents, ids) ==
  UpsertFrom(store, SubSeq(documents, 1, 1), SubSeq(ids, 1, 1), 1)

\* vector_store.add_documents(documents=..., ids=...) and
\* Chroma.from_documents(..., ids=...): upsert by id, in batch order
add_documents(store, documents, ids) == UpsertFrom(store, documents, ids, 1)

\* a write that shows a reader the batch applied to an empty collection
WrittenFromEmpty(store, documents, ids) ==
  {UpsertFrom(<<>>, SubSeq(documents, 1, j), SubSeq(ids, 1, j), 1) :
     j \in 0..Len(documents)}

\* what a reader can find in the collection while add_documents or
\* from_documents writes a batch into it: nothing orders the read and the
\* write, so the read sees the batch applied up to any point
PartlyWritten(store, documents, ids) ==
  {UpsertFrom(store, SubSeq(documents, 1, j), SubSeq(ids, 1, j), 1) :
     j \in 0..Len(documents)}

\* a write that raises (embedding or store error) is caught by the caller
\* with the collection as it was
FailedWrite(store, documents, ids) == store

\* a mutant: the old directory is left in place
KeepStore(store) == store

\* shutil.rmtree(persist_dir); os.makedirs(persist_dir): nothing is stored
DiscardStore(store) == <<>>

(* ---------------- state ---------------- *)
VARIABLES
  mailbox,      \* the messages of the Gmail account: id -> [recv, dateOk]
  downloader,   \* whether the import of email_downloader succeeded
  now,          \* datetime.now(), in ticks
  dirExists,    \* os.path.exists(persist_dir)
  index,        \* the persisted collection: a sequence of [id, doc]
  pc,           \* position of the maintenance controller
  op,           \* operation running or last run
  updated,      \* the operation entered its update section
  query,        \* the Gmail query of the operation
  cutoff,       \* now - timedelta(days=days_to_check) of the operation
  preDir,       \* dirExists when the operation started
  preIndex,     \* index when the operation started
  emails_data,  \* what fetch_emails_for_embedding returned
  faults,       \* what went wrong inside the operation
  authCalled,   \* authenticate_gmail was called by the operation
  fetchCalled,  \* fetch_emails_for_embedding was called by the operation
  outcome,      \* "running", "returned" or "halted" (st.stop)
  result,       \* the (bool, message) pair of the manual update
  notice,       \* st.error / st.warning shown by initialization
  skipLog,      \* the "Skipped n" line printed by the normalizer
  afterUpdate,  \* the initialization creates the agent again after a
                \* successful manual update cleared get_cached_agent
  afterHalt,    \* the operation before this one was a rebuild that halted
                \* because Gmail authentication failed
  storeObject,  \* the local vector_store of initialize_email_vector_store:
                \* "None", or "Chroma" once a store object is bound to it
  retriever,    \* the email retriever create_conversational_agent built
  args,         \* the arguments of the last call of a function under test
  returned,     \* what that call returned
  token_file,   \* what TOKEN_FILE (token.pickle) holds
  last_used_context,  \* st.session_state['last_used_context']
  last_answer   \* the tool that gave the most recent answer of the chat

vars == <<mailbox, downloader, now, dirExists, index, pc, op, updated, query,
          cutoff, preDir, preIndex, emails_data, faults, authCalled,
          fetchCalled, outcome, result, notice, skipLog, afterUpdate,
          afterHalt, storeObject, retriever, args, returned, token_file,
          last_used_context, last_answer>>

world == <<mailbox, downloader>>

\* the state of the calls made outside the maintenance operations
callVars == <<retriever, args, returned, token_file, last_used_context,
             last_answer>>

\* the token file and the chat session, which the index operations and
\* the functions of the harvester leave alone
sessionVars == <<token_file, last_used_context, last_answer>>

NoArgs == <<>>
NoReturn == <<>>
NoRetriever == [kind |-> "none", k |-> 0, fallback |-> FALSE]

NoQuery == [kind |-> "none", day |-> 0]
NoResult == [ok |-> TRUE, detail |-> "none", n |-> 0]

\* the query of a rebuild: newer_than:60d, longer than the run
RebuildQuery == [kind |-> "newer_than", day |-> 0]

\* a mutant: the lower bound is one day too early
UpdateQueryEarly(t, days_to_check) ==
  [kind |-> "after", day |-> DayOf(t - (days_to_check + 1) * TicksPerDay)]

\* f'after:{(now - timedelta(days=days_to_check)).strftime("%Y/%m/%d")}'
UpdateQuery(t, days_to_check) ==
  [kind |-> "after", day |-> DayOf(t - days_to_check * TicksPerDay)]

(* ---------------- the harvester ---------------- *)
\* Gmail's answer to messages().list(q=...): the messages received so far
\* that the query selects (after: compares calendar days)
Matches(q, id) ==
  /\ mailbox[id].recv <= now
  /\ q.kind = "after" => DayOf(mailbox[id].recv) >= q.day

\* the dictionary fetch_emails_for_embedding builds for one message
StructuredEmail(id, body) ==
  [id      |-> id,
   sender  |-> "sender",
   date    |-> IF mailbox[id].dateOk THEN DateHeader(mailbox[id].recv)
               ELSE GarbageDate,
   subject |-> "subject",
   body    |-> body]

\* Python values a function returns: None, or a list
PyNone == <<"None">>
PyList(items) == <<"list", items>>
IsPyList(value) == Len(value) = 2 /\ value[1] = "list"
ItemsOf(value) == value[2]

\* not value: None and the empty list are falsy
Falsy(value) == value = PyNone \/ value = PyList(<<>>)

\* 'nextPageToken' in response: every page of the chain but the last
HasNextPageToken(chain, k) == k < Len(chain)

\* the while loop of list_messages, response being page k of the chain;
\* the request of page number fails raises
RECURSIVE list_messages_loop(_, _, _, _)
list_messages_loop(chain, k, messages, fails) ==
  IF ~HasNextPageToken(chain, k) THEN PyList(messages)
  ELSE IF fails = k + 1 THEN PyNone
  ELSE IF chain[k + 1].key
    THEN list_messages_loop(chain, k + 1,
                            messages \o chain[k + 1].messages, fails)
    ELSE PyList(messages)

\* list_messages over the result pages of the query; the request of page
\* number fails raises (0: none does) and the function returns None
list_messages_paged(chain, fails) ==
  IF fails = 1 THEN PyNone
  ELSE list_messages_loop(chain, 1,
                          IF chain[1].key THEN chain[1].messages ELSE <<>>,
                          fails)

\* list_messages in the harvester: Gmail lists the ids matching the query
\* on one page, which has no 'messages' key when nothing matches; None
\* when the request raises
list_messages(q, listOk) ==
  LET listed == SelectSeq(IdOrder, LAMBDA id : Matches(q, id)) IN
  list_messages_paged(<<[key |-> listed # <<>>, messages |-> listed]>>,
                      IF listOk THEN 0 ELSE 1)

\* a mutant: what list_messages returned is handed on when it is falsy
fetch_emails_for_embedding_as_listed(q, listOk, got, bodyOf, crashed) ==
  LET messages_info == list_messages(q, listOk) IN
  IF Falsy(messages_info) THEN messages_info
  ELSE IF crashed THEN PyList(<<>>)
  ELSE LET fetched == SelectSeq(ItemsOf(messages_info), LAMBDA id : id \in got)
       IN PyList([k \in 1..Len(fetched) |->
                    StructuredEmail(fetched[k], bodyOf[fetched[k]])])

\* fetch_emails_for_embedding: [] when listing fails or finds nothing; a
\* message get_message cannot retrieve is left out; an exception raised
\* while the messages are processed is caught and [] returned
fetch_emails_for_embedding(q, listOk, got, bodyOf, crashed) ==
  LET messages_info == list_messages(q, listOk) IN
  IF Falsy(messages_info) THEN PyList(<<>>)
  ELSE IF crashed THEN PyList(<<>>)
  ELSE LET fetched == SelectSeq(ItemsOf(messages_info), LAMBDA id : id \in got)
       IN PyList([k \in 1..Len(fetched) |->
                    StructuredEmail(fetched[k], bodyOf[fetched[k]])])

\* what fails inside fetch_emails_for_embedding without reaching its caller:
\* "fetch" when an exception made it return [] (listing, or processing the
\* messages), "get" when a listed message could not be retrieved
FetchFaults(q, listOk, got, crashed) ==
  IF ~listOk THEN {"fetch"}
  ELSE IF Falsy(list_messages(q, listOk)) THEN {}
  ELSE IF crashed THEN {"fetch"}
  ELSE IF \E id \in Ids : Matches(q, id) /\ id \notin got THEN {"get"} ELSE {}

\* the mailboxes of the model: messages().list returns the newest message
\* first, so a message is no older than those listed after it
Mailboxes ==
  {m \in [Ids -> [recv : Ticks, dateOk : BOOLEAN]] :
     \A i, j \in 1..Len(IdOrder) : i < j => m[IdOrder[i]].recv >= m[IdOrder[j]].recv}

\* the index, the mailbox and the maintenance controller at the start
InitIndex ==
  /\ mailbox \in Mailboxes
  /\ downloader \in BOOLEAN
  /\ now = NowStart
  /\ dirExists \in BOOLEAN
  /\ index = <<>>
  /\ pc = "idle"
  /\ op = "none"
  /\ updated = FALSE
  /\ query = NoQuery
  /\ cutoff = 0
  /\ preDir = dirExists
  /\ preIndex = <<>>
  /\ emails_data = <<>>
  /\ faults = {}
  /\ authCalled = FALSE
  /\ fetchCalled = FALSE
  /\ outcome = "none"
  /\ result = NoResult
  /\ notice = "none"
  /\ skipLog = <<>>
  /\ afterUpdate = FALSE
  /\ afterHalt = FALSE
  /\ storeObject = "None"
  /\ retriever = NoRetriever
  /\ args = NoArgs
  /\ returned = NoReturn

\* the token file of an earlier run, and the session state app.py sets up
InitSession ==
  /\ token_file = "valid"
  /\ last_used_context = PyNone
  /\ last_answer = "none"

Init == InitIndex /\ InitSession

\* the clock advances between operations (an operation reads it once)
Tick ==
  /\ pc = "idle"
  /\ now < MaxNow
  /\ now' = now + 1
  /\ UNCHANGED <<mailbox, downloader, dirExists, index, pc, op, updated, query,
                 cutoff, preDir, preIndex, emails_data, faults, authCalled,
                 fetchCalled, outcome, result, notice, skipLog, afterUpdate,
                 afterHalt, storeObject, callVars>>

\* what every operation resets when it starts
Begin(name) ==
  /\ pc = "idle"
  /\ op' = name
  /\ preDir' = dirExists
  /\ preIndex' = index
  /\ emails_data' = <<>>
  /\ authCalled' = FALSE
  /\ fetchCalled' = FALSE
  /\ skipLog' = <<>>
  /\ afterUpdate' = (name # "manual" /\ op = "manual" /\ result.ok)
  /\ afterHalt' = /\ op = "rebuild"
                  /\ outcome = "halted"
                  /\ faults \cap {"auth", "auth_raise"} # {}
  /\ UNCHANGED <<world, now, callVars>>

\* the operation ends: it returned to its caller or stopped the script
Finish(how) ==
  /\ pc' = "idle"
  /\ outcome' = how

\* what a step inside an operation leaves alone
opFrame == <<mailbox, downloader, now, op, updated, preDir, preIndex,
             afterUpdate, afterHalt, callVars>>

\* the nondeterminism of one harvest: whether listing succeeds, whether the
\* processing raises, which of the listed messages get_message retrieves,
\* and the body text of each. Choices that cannot show in the result (what
\* is retrieved of a harvest that returns nothing, the body of a message
\* that is not retrieved) are taken once.
Harvest(q) ==
  \E listOk \in BOOLEAN, crashed \in BOOLEAN,
     got \in SUBSET {id \in Ids : Matches(q, id)}, bodyOf \in [Ids -> Bodies] :
    /\ (~listOk \/ crashed) => got = {}
    /\ ~listOk => ~crashed
    /\ \A id \in Ids \ got : bodyOf[id] = "b1"
    /\ emails_data' =
         ItemsOf(fetch_emails_for_embedding(q, listOk, got, bodyOf, crashed))
    /\ faults' = faults \cup FetchFaults(q, listOk, got, crashed)
    /\ fetchCalled' = TRUE

(* ---------------- initialize_email_vector_store: rebuild ---------------- *)
\* "if vector_store is None: st.error(...); st.stop()" and
\* "return vector_store", the end of initialize_email_vector_store
StoreOrStop(store) == IF store = "None" THEN "halted" ELSE "returned"

\* the initialization reaches its end with this store object bound and
\* this notice shown so far
EndInitialize(store, note) ==
  /\ storeObject' = store
  /\ Finish(StoreOrStop(store))
  /\ notice' = IF StoreOrStop(store) = "halted" THEN "error" ELSE note

\* what a call of authenticate_gmail comes to: a Gmail service, None (no
\* credentials file, or build failed), or an exception it does not catch
\* (the OAuth flow or the writing of the token file raises)
AuthOutcomes == {"service", "None", "raise"}

\* an exception leaves initialize_email_vector_store and reaches
\* get_cached_agent: st.error(...) and st.stop()
Uncaught == [outcome |-> "halted", notice |-> "error"]

\* a rebuild that cannot harvest and returns what it has
CannotRebuildReturns == [outcome |-> "returned", notice |-> "none"]

\* the rebuild cannot harvest (no downloader functions, or no Gmail
\* service): st.error(...) and st.stop()
CannotRebuild == [outcome |-> "halted", notice |-> "error"]

\* a rebuild that leaves the directory to the store it writes later
MakeDirsSkipped(exists) == FALSE

\* os.makedirs(persist_dir, exist_ok=True): the directory exists afterwards
MakeDirs(exists) == TRUE

\* config.REBUILD_EMAIL_VECTOR_STORE is set: the old store is deleted and
\* the directory recreated before anything else
StartRebuild ==
  /\ Begin("rebuild")
  /\ storeObject' = "None"
  /\ result' = NoResult
  /\ updated' = FALSE
  /\ query' = RebuildQuery
  /\ cutoff' = 0
  /\ index' = DiscardStore(index)
  /\ dirExists' = MakeDirs(FALSE)
  /\ IF downloader
     THEN /\ pc' = "rb_auth"
          /\ outcome' = "running"
          /\ faults' = {}
          /\ notice' = "none"
     ELSE /\ Finish(CannotRebuild.outcome)
          /\ faults' = {"unavailable"}
          /\ notice' = CannotRebuild.notice

RebuildAuth ==
  /\ pc = "rb_auth"
  /\ authCalled' = TRUE
  /\ \E gmail_service \in AuthOutcomes :
       IF gmail_service = "service"
       THEN /\ pc' = "rb_fetch"
            /\ UNCHANGED <<outcome, faults, notice>>
       ELSE IF gmail_service = "None"
       THEN /\ Finish(CannotRebuild.outcome)
            /\ faults' = faults \cup {"auth"}
            /\ notice' = CannotRebuild.notice
       ELSE /\ Finish(Uncaught.outcome)
            /\ faults' = faults \cup {"auth_raise"}
            /\ notice' = Uncaught.notice
  /\ UNCHANGED <<opFrame, dirExists, index, query, cutoff, emails_data,
                 fetchCalled, result, skipLog, storeObject>>

RebuildFetch ==
  /\ pc = "rb_fetch"
  /\ Harvest(query)
  /\ pc' = "rb_store"
  /\ UNCHANGED <<opFrame, dirExists, index, query, cutoff, authCalled,
                 outcome, result, notice, skipLog, storeObject>>

\* Chroma.from_documents for the Documents, or an empty Chroma when there
\* are none; an exception of the write reaches get_cached_agent: st.stop
RebuildStore ==
  /\ pc = "rb_store"
  /\ IF emails_data = <<>>
     THEN /\ EndInitialize("Chroma", notice)
          /\ UNCHANGED <<index, faults, skipLog>>
     ELSE LET made == create_langchain_documents_from_emails(emails_data) IN
          /\ skipLog' = <<made.skipped_count>>
          /\ IF made.documents = <<>>
             THEN /\ EndInitialize("Chroma", notice)
                  /\ UNCHANGED <<index, faults>>
             ELSE \E written \in BOOLEAN :
                    IF written
                    THEN /\ index' = add_documents(index, made.documents, made.doc_ids)
                         /\ EndInitialize("Chroma", notice)
                         /\ UNCHANGED faults
                    ELSE /\ index' = FailedWrite(index, made.documents, made.doc_ids)
                         /\ Finish("halted")
                         /\ faults' = faults \cup {"store"}
                         /\ notice' = "error"
                         /\ UNCHANGED storeObject
  /\ UNCHANGED <<opFrame, dirExists, query, cutoff, emails_data, authCalled,
                 fetchCalled, result>>

(* ------------- initialize_email_vector_store: load or bootstrap ------------- *)
\* a store that opens fresh instead of reading what is persisted
LoadStoreFresh(store) == <<>>

\* Chroma(persist_directory=persist_dir, ...) on an existing directory: the
\* collection as it was persisted
LoadStore(store) == store

\* a startup update that runs whatever config.UPDATE_EMAIL_ON_STARTUP says
RunsStartupUpdateAlways(rebuild, update) == ~rebuild

\* "if not config.REBUILD_EMAIL_VECTOR_STORE and
\*  config.UPDATE_EMAIL_ON_STARTUP": the optional update follows the load
\* and the bootstrap alike
RunsStartupUpdate(rebuild, update) == ~rebuild /\ update

\* config.REBUILD_EMAIL_VECTOR_STORE is not set; update is
\* config.UPDATE_EMAIL_ON_STARTUP
StartLoad ==
  /\ Begin("init")
  /\ result' = NoResult
  /\ query' = NoQuery
  /\ cutoff' = 0
  /\ \E update \in BOOLEAN, loaded \in BOOLEAN :
       IF dirExists /\ ~loaded
       THEN \* Chroma(...) raises: st.error, st.stop
            /\ Finish("halted")
            /\ faults' = {"load"}
            /\ notice' = "error"
            /\ updated' = FALSE
            /\ storeObject' = "None"
            /\ UNCHANGED <<dirExists, index>>
       ELSE LET runs == RunsStartupUpdate(FALSE, update) IN
            /\ dirExists' = TRUE
            /\ index' = IF dirExists THEN LoadStore(index) ELSE <<>>
            /\ updated' = update
            /\ IF runs /\ downloader
               THEN /\ pc' = "su_auth"
                    /\ outcome' = "running"
                    /\ faults' = {}
                    /\ notice' = IF dirExists THEN "none" ELSE "warning"
                    /\ storeObject' = "Chroma"
               ELSE /\ EndInitialize("Chroma",
                                     IF runs \/ ~dirExists THEN "warning"
                                     ELSE "none")
                    /\ faults' = IF runs THEN {"unavailable"} ELSE {}

StartupAuth ==
  /\ pc = "su_auth"
  /\ authCalled' = TRUE
  /\ \E gmail_service \in AuthOutcomes, days_to_check \in Windows,
        configOk \in BOOLEAN :
       IF gmail_service = "service" /\ configOk
       THEN /\ query' = UpdateQuery(now, days_to_check)
            /\ cutoff' = now - days_to_check * TicksPerDay
            /\ pc' = "su_fetch"
            /\ UNCHANGED <<outcome, faults, notice, storeObject>>
       ELSE IF gmail_service = "raise"
       THEN /\ Finish(Uncaught.outcome)
            /\ notice' = Uncaught.notice
            /\ faults' = faults \cup {"auth_raise"}
            /\ UNCHANGED <<query, cutoff, storeObject>>
       ELSE /\ EndInitialize(storeObject, "warning")
            /\ faults' = faults \cup (IF gmail_service = "service"
                                      THEN {"config"} ELSE {"auth"})
            /\ UNCHANGED <<query, cutoff>>
  /\ UNCHANGED <<opFrame, dirExists, index, emails_data, fetchCalled, result,
                 skipLog>>

StartupFetch ==
  /\ pc = "su_fetch"
  /\ Harvest(query)
  /\ pc' = "su_store"
  /\ UNCHANGED <<opFrame, dirExists, index, query, cutoff, authCalled,
                 outcome, result, notice, skipLog, storeObject>>

\* vector_store.add_documents; its exception is caught and warned about
StartupStore ==
  /\ pc = "su_store"
  /\ IF emails_data = <<>>
     THEN /\ EndInitialize(storeObject, notice)
          /\ UNCHANGED <<index, faults, skipLog>>
     ELSE LET made == create_langchain_documents_from_emails(emails_data) IN
          /\ skipLog' = <<made.skipped_count>>
          /\ IF made.documents = <<>>
             THEN /\ EndInitialize(storeObject, notice)
                  /\ UNCHANGED <<index, faults>>
             ELSE \E written \in BOOLEAN :
                    IF written
                    THEN /\ index' = add_documents(index, made.documents, made.doc_ids)
                         /\ EndInitialize(storeObject, notice)
                         /\ UNCHANGED faults
                    ELSE /\ index' = FailedWrite(index, made.documents, made.doc_ids)
                         /\ faults' = faults \cup {"store"}
                         /\ EndInitialize(storeObject, "warning")
  /\ UNCHANGED <<opFrame, dirExists, query, cutoff, emails_data, authCalled,
                 fetchCalled, result>>

(* ---------------- update_email_vector_store_manual ---------------- *)
\* a mutant: the directory check is missing
StoreAssumed(exists) == TRUE

\* os.path.exists(persist_dir)
StoreFound(exists) == exists

Failure(detail) == [ok |-> FALSE, detail |-> detail, n |-> 0]
Success(detail, n) == [ok |-> TRUE, detail |-> detail, n |-> n]

\* an update whose exception leaves the function
UncaughtUpdateError == [outcome |-> "raised", result |-> NoResult]

\* "except Exception as update_err": whatever raises inside the try block
\* of the update comes back as (False, "An error occurred during the
\* update: ...")
CaughtUpdateError == [outcome |-> "returned", result |-> Failure("error")]

\* the directory check, the opening of the store and the query
StartManual ==
  /\ Begin("manual")
  /\ notice' = "none"
  /\ storeObject' = "None"
  /\ UNCHANGED index
  /\ \E days_to_check \in Windows, loaded \in BOOLEAN :
       IF ~StoreFound(dirExists)
       THEN /\ result' = Failure("nodir")
            /\ Finish("returned")
            /\ faults' = {"nodir"}
            /\ updated' = FALSE
            /\ query' = NoQuery
            /\ cutoff' = 0
            /\ UNCHANGED dirExists
       ELSE IF ~loaded
       THEN /\ result' = CaughtUpdateError.result
            /\ Finish(CaughtUpdateError.outcome)
            /\ faults' = {"load"}
            /\ updated' = TRUE
            /\ query' = NoQuery
            /\ cutoff' = 0
            /\ UNCHANGED dirExists
       ELSE \* Chroma(persist_directory=...) opens the location
            /\ dirExists' = TRUE
            /\ updated' = TRUE
            /\ query' = UpdateQuery(now, days_to_check)
            /\ cutoff' = now - days_to_check * TicksPerDay
            /\ pc' = "mu_auth"
            /\ outcome' = "running"
            /\ faults' = {}
            /\ result' = NoResult

\* authenticate_gmail(); when the import failed the call of None raises
\* and the except clause turns it into a failure
ManualAuth ==
  /\ pc = "mu_auth"
  /\ IF ~downloader
     THEN /\ result' = CaughtUpdateError.result
          /\ Finish(CaughtUpdateError.outcome)
          /\ faults' = faults \cup {"unavailable"}
          /\ UNCHANGED authCalled
     ELSE /\ authCalled' = TRUE
          /\ \E gmail_service \in AuthOutcomes :
               IF gmail_service = "service"
               THEN /\ pc' = "mu_fetch"
                    /\ UNCHANGED <<outcome, faults, result>>
               ELSE IF gmail_service = "None"
               THEN /\ result' = Failure("auth")
                    /\ Finish("returned")
                    /\ faults' = faults \cup {"auth"}
               ELSE \* caught by the except clause of the update
                    /\ result' = CaughtUpdateError.result
                    /\ Finish(CaughtUpdateError.outcome)
                    /\ faults' = faults \cup {"auth_raise"}
  /\ UNCHANGED <<opFrame, dirExists, index, query, cutoff, emails_data,
                 fetchCalled, notice, skipLog, storeObject>>

ManualFetch ==
  /\ pc = "mu_fetch"
  /\ Harvest(query)
  /\ pc' = "mu_store"
  /\ UNCHANGED <<opFrame, dirExists, index, query, cutoff, authCalled,
                 outcome, result, notice, skipLog, storeObject>>

\* the rest of the try block: the two early returns, add_documents and the
\* except clause
ManualStore ==
  /\ pc = "mu_store"
  /\ IF emails_data = <<>>
     THEN /\ result' = Success("no_new", 0)
          /\ Finish("returned")
          /\ UNCHANGED <<index, faults, skipLog>>
     ELSE LET made == create_langchain_documents_from_emails(emails_data) IN
          /\ skipLog' = <<made.skipped_count>>
          /\ IF made.documents = <<>>
             THEN /\ result' = Success("no_valid", 0)
                  /\ Finish("returned")
                  /\ UNCHANGED <<index, faults>>
             ELSE \E written \in BOOLEAN :
                    IF written
                    THEN /\ index' = add_documents(index, made.documents, made.doc_ids)
                         /\ result' = Success("added", Len(made.documents))
                         /\ Finish("returned")
                         /\ UNCHANGED faults
                    ELSE /\ index' = FailedWrite(index, made.documents, made.doc_ids)
                         /\ result' = CaughtUpdateError.result
                         /\ Finish(CaughtUpdateError.outcome)
                         /\ faults' = faults \cup {"store"}
  /\ UNCHANGED <<opFrame, dirExists, query, cutoff, emails_data, authCalled,
                 fetchCalled, notice, storeObject>>

Next ==
  \/ Tick
  \/ StartRebuild
  \/ RebuildAuth
  \/ RebuildFetch
  \/ RebuildStore
  \/ StartLoad
  \/ StartupAuth
  \/ StartupFetch
  \/ StartupStore
  \/ StartManual
  \/ ManualAuth
  \/ ManualFetch
  \/ ManualStore

Spec == Init /\ [][Next]_vars

(* ---------------- calls of the normalizer ---------------- *)
\* largest email_data_list the normalizer is called with
MaxItems == 3

\* the state of the maintenance operations, the persisted index apart
opState == <<mailbox, downloader, now, dirExists, pc, op, updated, query,
             cutoff, preDir, preIndex, emails_data, faults, authCalled,
             fetchCalled, outcome, result, notice, skipLog, afterUpdate,
             afterHalt, storeObject>>

\* what a call of the normalizer or of the harvester leaves alone
maintenanceVars == <<opState, index, retriever, sessionVars>>

\* the dictionaries the normalizer can be handed: with or without an id,
\* a date header that is empty, malformed or well formed, with or without
\* body text
RawItems ==
  [id      : Ids \cup {""},
   sender  : {"sender"},
   date    : {<<>>, GarbageDate, DateHeader(0)},
   subject : {"subject"},
   body    : {"", "b1"}]

RawLists == UNION {[1..n -> RawItems] : n \in 0..MaxItems}

InitNormalize ==
  /\ Init
  /\ mailbox = [id \in Ids |-> [recv |-> 0, dateOk |-> TRUE]]
  /\ downloader
  /\ ~dirExists

\* documents, doc_ids = create_langchain_documents_from_emails(emails_data),
\* called once
CallNormalize ==
  /\ args = NoArgs
  /\ \E email_data_list \in RawLists :
       LET made == create_langchain_documents_from_emails(email_data_list) IN
       /\ args' = <<email_data_list>>
       /\ returned' = <<made.documents, made.doc_ids>>
  /\ UNCHANGED maintenanceVars

NextNormalize == CallNormalize

SpecNormalize == InitNormalize /\ [][NextNormalize]_vars

\* the normalizer was called with email_data_list and returned
Normalized == Len(args) = 1 /\ Len(returned) = 2
email_data_list == args[1]
documents == returned[1]
doc_ids == returned[2]

(* ---------------- calls of the harvester ---------------- *)
\* the Gmail queries the operations pass to the harvester
Queries == {RebuildQuery} \cup {UpdateQuery(NowStart, w) : w \in Windows}

InitFetch ==
  /\ Init
  /\ downloader
  /\ ~dirExists

\* emails_data = fetch_emails_for_embedding(gmail_service, query=query),
\* called once; args keeps the query and what the Gmail calls did (whether
\* listing succeeded, the messages get_message retrieved, whether the
\* processing raised)
CallFetch ==
  /\ args = NoArgs
  /\ \E q \in Queries, listOk \in BOOLEAN, got \in SUBSET Ids,
        bodyOf \in [Ids -> Bodies], crashed \in BOOLEAN :
       /\ args' = <<q, listOk, got, crashed>>
       /\ returned' = fetch_emails_for_embedding(q, listOk, got, bodyOf, crashed)
  /\ UNCHANGED maintenanceVars

NextFetch == CallFetch

SpecFetch == InitFetch /\ [][NextFetch]_vars

\* the harvester was called and returned
Fetched == Len(args) = 4

(* ---------------- retrieval ---------------- *)
\* config.NUMBER_OF_EMAILS_RETRIEVED
NUMBER_OF_EMAILS_RETRIEVED == 15
\* largest number of Documents in the store the agent is given
MaxCorpus == 17

\* the store initialize_email_vector_store returns to the agent when it
\* holds n Documents: message n of the mailbox carries timestamp n
Corpus(n) ==
  [i \in 1..n |->
     [id |-> i,
      doc |-> MakeDocument([id |-> i, sender |-> "sender",
                            date |-> DateHeader(i), subject |-> "subject",
                            body |-> "b1"])]]

\* questions put to the email tool; question q is nearest to Document q
UserQueries == {1, MaxCorpus \div 2, MaxCorpus}

\* the embedding distance of Document id from the question: no two
\* Documents are equally far
Dist(q, id) ==
  IF id >= q THEN 2 * (id - q) ELSE 2 * (q - id) + 1

\* the metadata filter of a structured query: none, or a comparison of
\* the timestamp
NoFilter == [comparator |-> "none", value |-> 0]
Filters == {NoFilter} \cup
           {[comparator |-> "gte", value |-> t] : t \in {2, MaxCorpus + 2}}

MatchesFilter(doc, filter) ==
  \/ filter.comparator = "none"
  \/ /\ filter.comparator = "gte"
     /\ doc.metadata.timestamp # <<>>
     /\ doc.metadata.timestamp[1] >= filter.value

\* Chroma's similarity_search(query, k, filter): of the entries the filter
\* admits, the k nearest, the nearest first
similarity_search(store, q, k, filter) ==
  LET cand == {i \in 1..Len(store) : MatchesFilter(store[i].doc, filter)}
      rank(i) == Cardinality({j \in cand :
                               Dist(q, store[j].id) < Dist(q, store[i].id)})
      n == IF k < Cardinality(cand) THEN k ELSE Cardinality(cand)
  IN [r \in 1..n |-> store[CHOOSE i \in cand : rank(i) = r - 1].doc]

\* a standard retriever that leaves the number of results to the store
get_email_standard_retriever_unbounded(vector_store) ==
  [kind |-> "standard", k |-> Len(vector_store), fallback |-> FALSE]

\* vector_store.as_retriever(search_kwargs={"k": k_value})
get_email_standard_retriever(vector_store) ==
  [kind |-> "standard", k |-> NUMBER_OF_EMAILS_RETRIEVED, fallback |-> FALSE]

\* SelfQueryRetriever.from_llm(..., search_kwargs={"k": k_value}); when
\* the construction raises, the standard retriever is returned instead
get_email_self_query_retriever(vector_store, constructs) ==
  IF constructs
  THEN [kind |-> "self_query", k |-> NUMBER_OF_EMAILS_RETRIEVED,
        fallback |-> FALSE]
  ELSE [get_email_standard_retriever(vector_store) EXCEPT !.fallback = TRUE]

\* what the query constructor of the self-query retriever makes of a
\* question: a structured query with a filter, or a failure
FilterFailure == <<"failure">>
StructuredQuery(filter) == <<"structured", filter>>
Constructions == {FilterFailure} \cup {StructuredQuery(f) : f \in Filters}

\* the retriever's get_relevant_documents: <<"documents", ...>>, or
\* <<"raise">> when the self-query retriever cannot construct its filter
\* (SelfQueryRetriever has no handler of its own and none is given it)
Retrieve(retr, store, q, construction) ==
  IF retr.kind = "standard"
  THEN <<"documents", similarity_search(store, q, retr.k, NoFilter)>>
  ELSE IF construction = FilterFailure
  THEN <<"raise">>
  ELSE <<"documents", similarity_search(store, q, retr.k, construction[2])>>

\* invoke_email_rag_chain: the answer with its context, or the string
\* "Error invoking Email RAG chain: ..." when retrieval_chain.invoke raises
\* (in the retriever, or in the model that writes the answer)
ToolError == <<"Error invoking Email RAG chain">>
ToolAnswer(context) == <<"answer", context>>

invoke_email_rag_chain(retr, store, q, construction, generated) ==
  LET retrieved == Retrieve(retr, store, q, construction) IN
  IF retrieved = <<"raise">> \/ ~generated
  THEN ToolError
  ELSE ToolAnswer(retrieved[2])

InitRetrieve ==
  /\ Init
  /\ mailbox = [id \in Ids |-> [recv |-> 0, dateOk |-> TRUE]]
  /\ downloader
  /\ dirExists

\* create_conversational_agent: the store and the email retriever of
\* config.USE_EMAIL_SELF_QUERY
CreateAgent ==
  /\ retriever = NoRetriever
  /\ \E n \in 0..MaxCorpus, use_self_query \in BOOLEAN, constructs \in BOOLEAN :
       /\ index' = Corpus(n)
       /\ retriever' = IF use_self_query
                        THEN get_email_self_query_retriever(Corpus(n), constructs)
                        ELSE get_email_standard_retriever(Corpus(n))
  /\ UNCHANGED <<opState, args, returned, sessionVars>>

\* the agent calls the email tool with a question; args keeps the
\* question, what the query constructor made of it, and whether the model
\* wrote an answer
InvokeEmailTool ==
  /\ retriever # NoRetriever
  /\ \E q \in UserQueries, construction \in Constructions,
        generated \in BOOLEAN :
       /\ args' = <<q, construction, generated>>
       /\ returned' =
            invoke_email_rag_chain(retriever, index, q, construction, generated)
  /\ UNCHANGED <<opState, index, retriever, sessionVars>>

NextRetrieve ==
  \/ CreateAgent
  \/ InvokeEmailTool

SpecRetrieve == InitRetrieve /\ [][NextRetrieve]_vars

\* the email tool was called and returned
Invoked == Len(args) = 3 /\ retriever # NoRetriever

(* ---------------- calls of list_messages ---------------- *)
\* longest chain of result pages messages().list answers with
MaxPages == 3

\* response['messages'] of one page, where the key is present
PageMessages == {<<>>, <<"m1">>, <<"m2">>, <<"m1", "m2">>}

\* one response of messages().list: with or without the 'messages' key
Pages ==
  {[key |-> FALSE, messages |-> <<>>]}
    \cup {[key |-> TRUE, messages |-> m] : m \in PageMessages}

\* the result pages of one query, linked by nextPageToken
Chains == UNION {[1..n -> Pages] : n \in 1..MaxPages}

InitList ==
  /\ Init
  /\ mailbox = [id \in Ids |-> [recv |-> 0, dateOk |-> TRUE]]
  /\ downloader
  /\ ~dirExists

\* messages = list_messages(service, query=query), called once; args keeps
\* the pages Gmail answers with and the request that raises (0: none)
CallList ==
  /\ args = NoArgs
  /\ \E chain \in Chains, fails \in 0..MaxPages :
       /\ fails <= Len(chain)
       /\ args' = <<chain, fails>>
       /\ returned' = list_messages_paged(chain, fails)
  /\ UNCHANGED maintenanceVars

NextList == CallList

SpecList == InitList /\ [][NextList]_vars

\* list_messages was called and returned
Listed == Len(args) = 2

\* the messages of all pages of the chain, in page order
RECURSIVE AllMessages(_)
AllMessages(chain) ==
  IF chain = <<>> THEN <<>>
  ELSE chain[1].messages \o AllMessages(Tail(chain))

(* ---------------- calls of authenticate_gmail ---------------- *)
\* what TOKEN_FILE can hold: no file, a file pickle.load rejects with
\* EOFError or UnpicklingError, a file it rejects with another exception,
\* valid credentials, expired credentials with a refresh token,
\* credentials that are neither valid nor refreshable, or a pickled None
TokenFiles ==
  {"absent", "corrupt", "unloadable", "valid", "expired", "invalid", "None"}

\* creds after the token file is read: None without a file, with a file
\* that does not load, and with a file that holds None
LoadToken(token) ==
  IF token \in {"absent", "corrupt", "None"} THEN "None" ELSE token

\* build('gmail', 'v1', credentials=creds): the service, or None when
\* build raises; with credentials=None the client library looks for
\* default credentials of the environment, and builds or raises
BuildService(creds, builds, token) ==
  [service |-> IF builds THEN "service" ELSE "None",
   credentials |-> creds,
   token_file |-> token]

\* except Exception around creds.refresh: TOKEN_FILE is removed and creds
\* set to None; the else branch with the authorization flow belongs to
\* the other case, so None is pickled into TOKEN_FILE and handed to build
RefreshFailed(builds) == BuildService("None", builds, "None")

\* authenticate_gmail(): credentials_file is whether CREDENTIALS_FILE
\* exists, refreshes whether creds.refresh succeeds, flow what
\* run_local_server does ("creds" or "raise"), builds whether build
\* returns a service
authenticate_gmail(token, credentials_file, refreshes, flow, builds) ==
  LET creds == LoadToken(token) IN
  IF creds = "unloadable"
    THEN [service |-> "raise", credentials |-> "None", token_file |-> token]
  ELSE IF creds = "valid" THEN BuildService("valid", builds, token)
  ELSE IF creds = "expired"
    THEN IF refreshes THEN BuildService("valid", builds, "valid")
         ELSE RefreshFailed(builds)
  ELSE IF ~credentials_file
    THEN [service |-> "None", credentials |-> "None", token_file |-> token]
  ELSE IF flow = "raise"
    THEN [service |-> "raise", credentials |-> "None", token_file |-> token]
  ELSE BuildService("valid", builds, "valid")

InitAuth ==
  /\ InitIndex
  /\ mailbox = [id \in Ids |-> [recv |-> 0, dateOk |-> TRUE]]
  /\ downloader
  /\ ~dirExists
  /\ token_file \in TokenFiles \ {"None"}
  /\ last_used_context = PyNone
  /\ last_answer = "none"

\* service = authenticate_gmail(), called by every operation that
\* harvests; args keeps the token file the call found and what the
\* Google libraries did, returned the service and the credentials it
\* was built with
CallAuthenticate ==
  /\ \E credentials_file, refreshes, builds \in BOOLEAN,
        flow \in {"creds", "raise"} :
       LET auth == authenticate_gmail(token_file, credentials_file,
                                      refreshes, flow, builds) IN
       /\ args' = <<token_file, credentials_file, refreshes, flow, builds>>
       /\ returned' = <<auth.service, auth.credentials>>
       /\ token_file' = auth.token_file
  /\ UNCHANGED <<opState, index, retriever, last_used_context, last_answer>>

NextAuth == CallAuthenticate

SpecAuth == InitAuth /\ [][NextAuth]_vars

\* authenticate_gmail was called and returned or raised
Authenticated == Len(args) = 5

(* ---------------- the context of the last answer ---------------- *)
\* the lists of Documents a retrieval chain can put in response['context']
Contexts == {PyList(<<>>), PyList(<<"doc1">>), PyList(<<"doc2">>),
             PyList(<<"doc1", "doc2">>)}

\* what retrieval_chain.invoke does: it raises, or returns a response
\* whose context is absent (None) or a list of Documents
Responses == {<<"raise">>} \cup {<<"response", c>> : c \in {PyNone} \cup Contexts}

\* the tool input of the agent: a dict with "input", a str, or neither
ToolInputs == {"dict", "str", "other"}

\* the tools of the agent that do not retrieve from an index
NonRagTools == {"get_dining_menu", "get_cate_athletics_info",
                "get_student_info", "get_end_of_year_schedule"}

\* a retrieval tool that does not clear the session before it starts
KeepContext(previous) == previous

\* st.session_state['last_used_context'] = None, the first statement of
\* both retrieval tools
ClearContext(previous) == PyNone

InvalidInput == <<"Error: Invalid input format">>
ChainError == <<"Error invoking RAG chain">>
Answer == <<"answer">>

\* invoke_email_rag_chain and the session: what the tool returns and what
\* it leaves in last_used_context
invoke_email_rag_chain_session(previous, input_dict, response) ==
  LET cleared == ClearContext(previous) IN
  IF input_dict = "other"
    THEN [returned |-> InvalidInput, last_used_context |-> cleared]
  ELSE IF response = <<"raise">>
    THEN [returned |-> ChainError, last_used_context |-> cleared]
  ELSE [returned |-> Answer,
        last_used_context |-> IF Falsy(response[2]) THEN PyNone
                              ELSE response[2]]

\* invoke_rag_chain of the handbook tool: the context is stored when it
\* is not empty, and is left as cleared otherwise
invoke_rag_chain(previous, input_dict, response) ==
  LET cleared == ClearContext(previous) IN
  IF input_dict = "other"
    THEN [returned |-> InvalidInput, last_used_context |-> cleared]
  ELSE IF response = <<"raise">>
    THEN [returned |-> ChainError, last_used_context |-> cleared]
  ELSE [returned |-> Answer,
        last_used_context |-> IF Falsy(response[2]) THEN cleared
                              ELSE response[2]]

\* get_last_context: the sources of the stored context, or the sentence
\* that none was stored
NoContextStored == <<"No specific context was stored from the last answer">>
get_last_context(context) ==
  IF Falsy(context) THEN NoContextStored
  ELSE <<"Context used for the previous answer", ItemsOf(context)>>

InitContext ==
  /\ Init
  /\ mailbox = [id \in Ids |-> [recv |-> 0, dateOk |-> TRUE]]
  /\ downloader
  /\ dirExists

contextFrame == <<opState, index, retriever, token_file>>

\* the agent calls the email tool; args keeps the tool, its input, what
\* the retrieval chain did and the context the call found in the session
InvokeEmailRag ==
  /\ \E input_dict \in ToolInputs, response \in Responses :
       LET call == invoke_email_rag_chain_session(last_used_context,
                                                  input_dict, response) IN
       /\ args' = <<"email_retriever", input_dict, response,
                    last_used_context>>
       /\ returned' = call.returned
       /\ last_used_context' = call.last_used_context
  /\ last_answer' = "email_retriever"
  /\ UNCHANGED contextFrame

\* the agent calls the handbook tool
InvokeHandbookRag ==
  /\ \E input_dict \in ToolInputs, response \in Responses :
       LET call == invoke_rag_chain(last_used_context, input_dict, response) IN
       /\ args' = <<"cate_handbook_retriever", input_dict, response,
                    last_used_context>>
       /\ returned' = call.returned
       /\ last_used_context' = call.last_used_context
  /\ last_answer' = "cate_handbook_retriever"
  /\ UNCHANGED contextFrame

\* the agent calls one of the other tools: none of them touches the
\* session state
InvokeOtherTool ==
  /\ \E tool \in NonRagTools :
       /\ args' = <<tool, "str", <<"raise">>, last_used_context>>
       /\ last_answer' = tool
  /\ returned' = Answer
  /\ UNCHANGED <<contextFrame, last_used_context>>

\* the agent answers without calling a tool
DirectAnswer ==
  /\ args' = <<"direct", "str", <<"raise">>, last_used_context>>
  /\ last_answer' = "direct"
  /\ returned' = Answer
  /\ UNCHANGED <<contextFrame, last_used_context>>

\* the agent calls get_last_answer_context, whose input is ignored
GetLastContext ==
  /\ args' = <<"get_last_answer_context", "str", <<"raise">>,
               last_used_context>>
  /\ returned' = get_last_context(last_used_context)
  /\ UNCHANGED <<contextFrame, last_used_context, last_answer>>

NextContext ==
  \/ InvokeEmailRag
  \/ InvokeHandbookRag
  \/ InvokeOtherTool
  \/ DirectAnswer
  \/ GetLastContext

SpecContext == InitContext /\ [][NextContext]_vars

\* the last call was of the email tool or of the handbook tool
RagInvoked ==
  /\ Len(args) = 4
  /\ args[1] \in {"email_retriever", "cate_handbook_retriever"}

\* the last call was of get_last_answer_context
ContextAsked == Len(args) = 4 /\ args[1] = "get_last_answer_context"

(* ---------------- a search during maintenance ---------------- *)
\* the collections a search can find at this point of the operation
Visible ==
  IF pc \in {"rb_store", "mu_store"}
  THEN LET made == create_langchain_documents_from_emails(emails_data) IN
       PartlyWritten(index, made.documents, made.doc_ids)
  ELSE {index}

InitConcurrent ==
  /\ Init
  /\ mailbox = [id \in Ids |-> [recv |-> 0, dateOk |-> TRUE]]
  /\ downloader
  /\ dirExists

\* another session's question reaches the retriever while the operation
\* runs: no lock is taken by the button handler, by the initialization
\* or by the tool. args keeps where the operation was, the index it
\* started from and the batch it writes; returned what the search found
\* in the collection
ConcurrentSearch ==
  /\ args = NoArgs
  /\ pc # "idle"
  /\ \E seen \in Visible :
       LET made == create_langchain_documents_from_emails(emails_data) IN
       /\ args' = <<pc, preIndex, made.documents, made.doc_ids>>
       /\ returned' = <<seen>>
  /\ UNCHANGED <<opState, index, retriever, sessionVars>>

NextConcurrent ==
  \/ StartRebuild
  \/ RebuildAuth
  \/ RebuildFetch
  \/ RebuildStore
  \/ StartManual
  \/ ManualAuth
  \/ ManualFetch
  \/ ManualStore
  \/ ConcurrentSearch

SpecConcurrent == InitConcurrent /\ [][NextConcurrent]_vars

\* a search ran while an operation was in progress
SearchedDuring ==
  /\ Len(args) = 4
  /\ args[1] \in {"rb_auth", "rb_fetch", "rb_store",
                   "mu_auth", "mu_fetch", "mu_store"}

Entries(store) == {store[i] : i \in 1..Len(store)}

(* ---------------- types ---------------- *)
TypeOK ==
  /\ now \in Ticks
  /\ dirExists \in BOOLEAN
  /\ pc \in {"idle", "rb_auth", "rb_fetch", "rb_store", "su_auth", "su_fetch",
             "su_store", "mu_auth", "mu_fetch", "mu_store"}
  /\ op \in {"none", "rebuild", "init", "manual"}
  /\ outcome \in {"none", "running", "returned", "halted"}
  /\ ~dirExists => index = <<>>

(* ---------------- terms of the claims ---------------- *)
\* what the normalizer makes of the harvest of the operation
Made == create_langchain_documents_from_emails(emails_data)

HarvestIds == {emails_data[k].id : k \in 1..Len(emails_data)}

NoDuplicateIds(store) ==
  \A i, j \in 1..Len(store) : store[i].id = store[j].id => i = j

\* the operation is over
Ended == pc = "idle" /\ op # "none"

\* the operation was an update, at startup or manual, and is over
UpdateEnded == Ended /\ op \in {"init", "manual"} /\ updated

\* the operation is over and wrote its batch to the collection
Stored ==
  /\ Ended
  /\ outcome = "returned"
  /\ fetchCalled
  /\ Made.documents # <<>>
  /\ "store" \notin faults

\* the update is over and ended in failure: the manual update returned
\* ok = false, the startup update warned, or listing the messages failed
UpdateFailed ==
  /\ UpdateEnded
  /\ \/ ~result.ok
     \/ faults \cap {"unavailable", "auth", "auth_raise", "config", "store",
                     "fetch"} # {}

\* the lifecycle of the index (Absent, Building, Ready, Updating, Error)
Lifecycle ==
  IF pc \in {"rb_auth", "rb_fetch", "rb_store"} THEN "Building"
  ELSE IF pc # "idle" THEN "Updating"
  ELSE IF ~dirExists THEN "Absent"
  ELSE IF outcome = "halted" THEN "Error"
  ELSE "Ready"

(* ---------------- C1 ---------------- *)
\* C1: after any sequence of rebuilds and updates the index holds at most
\* one Document per id, and a batch that was stored left, under each of its
\* ids, exactly the Document of the batch, adding no entry for an id that
\* was present.
C1_OneDocumentPerId ==
  /\ NoDuplicateIds(index)
  /\ Stored =>
       /\ \A k \in 1..Len(Made.documents) :
            /\ HasId(index, Made.doc_ids[k])
            /\ DocOf(index, Made.doc_ids[k]) = Made.documents[k]
       /\ Len(index) = Cardinality(IF op = "rebuild" THEN HarvestIds
                                    ELSE EntryIds(preIndex) \cup HarvestIds)

\* an update replaced the Document stored under an id
C1_Witness ==
  /\ Stored
  /\ op = "manual"
  /\ \E id \in EntryIds(preIndex) \cap HarvestIds :
       DocOf(preIndex, id) # DocOf(index, id)

(* ---------------- C2 ---------------- *)
\* C2: upsert is idempotent: once a batch was stored, storing the same
\* batch again leaves ids, contents and metadata of the index as they are.
C2_UpsertIdempotent ==
  Stored => add_documents(index, Made.documents, Made.doc_ids) = index

\* an update stored a batch that changed the index
C2_Witness ==
  /\ Stored
  /\ op \in {"init", "manual"}
  /\ Len(Made.documents) = 2
  /\ preIndex # <<>>
  /\ index # preIndex

(* ---------------- C3 ---------------- *)
\* C3: a rebuild discards the persisted index before it authenticates or
\* harvests: while it runs and after it ends the index holds only what the
\* rebuild itself inserted, and a rebuild that fails leaves it empty.
C3_RebuildDestructive ==
  op = "rebuild" =>
    /\ pc \in {"rb_auth", "rb_fetch", "rb_store"} => index = <<>> /\ dirExists
    /\ pc = "rb_auth" => ~authCalled /\ ~fetchCalled
    /\ outcome = "halted" => index = <<>> /\ dirExists
    /\ \A i \in 1..Len(index) :
         \E k \in 1..Len(Made.documents) :
           index[i] = [id |-> Made.doc_ids[k], doc |-> Made.documents[k]]

\* a rebuild failed after it had discarded a populated index
C3_Witness ==
  /\ op = "rebuild"
  /\ outcome = "halted"
  /\ "auth" \in faults
  /\ preIndex # <<>>
  /\ index = <<>>

(* ---------------- C4 ---------------- *)
\* C4: when the harvester fails during a rebuild (listing or fetching a
\* message raises), the rebuild ends in Error and reports the failure; it
\* does not end in Ready with an index built from a partial or empty harvest.
C4_HarvestFailureIsError ==
  (Ended /\ op = "rebuild" /\ faults \cap {"fetch", "get"} # {}) =>
    /\ outcome = "halted"
    /\ notice = "error"
    /\ Lifecycle = "Error"

(* ---------------- C5 ---------------- *)
\* C5: a rebuild that succeeds leaves an index whose ids are exactly the
\* ids of the harvested items the normalizer kept, one entry each and
\* nothing else, and the count of skipped items was printed.
C5_RebuildCompleteness ==
  (Ended /\ op = "rebuild" /\ outcome = "returned") =>
    /\ EntryIds(index) = {Made.doc_ids[k] : k \in 1..Len(Made.doc_ids)}
    /\ Len(index) = Len(Made.documents)
    /\ emails_data # <<>> =>
         skipLog = <<Len(emails_data) - Len(index)>>

\* a rebuild stored two harvested items over an index that held another
\* version of them
C5_Witness ==
  /\ Ended /\ op = "rebuild" /\ outcome = "returned"
  /\ Len(index) = 2
  /\ preIndex # <<>>
  /\ preIndex # index

(* ---------------- C6 ---------------- *)
\* C6: update is additive: after an update every entry the index held
\* before it, whose id is not among the harvested items, is still there
\* unchanged, and no id was removed.
C6_UpdateAdditive ==
  UpdateEnded =>
    \A i \in 1..Len(preIndex) :
      /\ HasId(index, preIndex[i].id)
      /\ preIndex[i].id \notin HarvestIds =>
           \E j \in 1..Len(index) : index[j] = preIndex[i]

\* an update added a new id beside an entry it did not harvest
C6_Witness ==
  /\ UpdateEnded
  /\ Stored
  /\ \E id \in EntryIds(preIndex) : id \notin HarvestIds
  /\ \E id \in HarvestIds : id \notin EntryIds(preIndex)

C8_TriStateResult ==
  (Ended /\ op = "manual") =>
    /\ result.detail = "added" =>
         /\ result.ok
         /\ result.n = Len(Made.documents)
         /\ index = add_documents(preIndex, Made.documents, Made.doc_ids)
    /\ (result.ok /\ result.detail # "added") =>
         /\ faults = {}
         /\ Made.documents = <<>>
         /\ index = preIndex
    /\ faults \cap {"auth", "auth_raise", "fetch", "get", "store"} # {}
         => ~result.ok

(* ---------------- C9 ---------------- *)
\* the entries an update wrote
AddedByUpdate == {i \in 1..Len(index) : index[i].id \in HarvestIds}

\* C9 as claimed: an update adds only items whose derived timestamp is at
\* or after now minus W days, or absent.
C9_WindowByTimestamp ==
  (UpdateEnded /\ Stored) =>
    \A i \in AddedByUpdate :
      LET timestamp == index[i].doc.metadata.timestamp IN
      timestamp = <<>> \/ timestamp[1] >= cutoff

\* C9 as amended: an update adds every item the harvester returned for the
\* query after:<calendar day of now minus W days>, and only those: each was
\* received on or after that calendar day, whatever its hour and whether
\* or not its date parses.
C9_WindowByDay ==
  (UpdateEnded /\ Stored) =>
    /\ query = [kind |-> "after", day |-> DayOf(cutoff)]
    /\ \A k \in 1..Len(emails_data) :
         /\ DayOf(mailbox[emails_data[k].id].recv) >= DayOf(cutoff)
         /\ HasId(index, emails_data[k].id)
         /\ DocOf(index, emails_data[k].id) = MakeDocument(emails_data[k])

\* an update added an item of the cutoff day that is older than the
\* window, and an item without timestamp
C9_Witness ==
  /\ UpdateEnded /\ Stored
  /\ \E i \in AddedByUpdate :
       /\ index[i].doc.metadata.timestamp # <<>>
       /\ index[i].doc.metadata.timestamp[1] < cutoff
  /\ \E i \in AddedByUpdate : index[i].doc.metadata.timestamp = <<>>

(* ---------------- C10 ---------------- *)
\* C10: the manual update called when no persisted index exists returns a
\* failure without creating the location, authenticating or harvesting;
\* called on an existing index it leaves the index Ready, whether it
\* succeeds or fails.
C10_UpdateNeedsStore ==
  op = "manual" =>
    /\ ~preDir =>
         /\ Ended
         /\ ~result.ok
         /\ Lifecycle = "Absent"
         /\ ~authCalled /\ ~fetchCalled
         /\ index = <<>>
    /\ (preDir /\ Ended) => Lifecycle = "Ready" /\ outcome = "returned"
    /\ ~Ended => Lifecycle = "Updating" /\ preDir

\* the manual update was refused for want of a persisted index
C10_Witness ==
  /\ Ended
  /\ op = "manual"
  /\ ~preDir
  /\ result = Failure("nodir")

(* ---------------- C11 ---------------- *)
\* C11 as stated: an initialization without rebuild that finds no persisted
\* index creates an empty one and never authenticates or calls the
\* harvester. The startup update follows the bootstrap, so this does not
\* hold.
C11_BootstrapNeverFetches ==
  (op = "init" /\ ~preDir) =>
    /\ dirExists
    /\ Ended => index = <<>>
    /\ ~authCalled
    /\ ~fetchCalled

\* C11: an initialization without rebuild and with the startup update
\* disabled that finds no persisted index creates an empty one, returns,
\* and neither authenticates nor calls the harvester.
C11_BootstrapWithoutUpdate ==
  (op = "init" /\ ~preDir /\ ~updated) =>
    /\ Ended
    /\ outcome = "returned"
    /\ dirExists
    /\ index = <<>>
    /\ ~authCalled
    /\ ~fetchCalled

C11_Witness ==
  /\ op = "init"
  /\ ~preDir
  /\ ~updated
  /\ Ended
  /\ dirExists
  /\ index = <<>>
  /\ notice = "warning"

(* ---------------- C17 ---------------- *)
\* C17: an initialization without rebuild and without the startup update,
\* run against an existing persisted index, leaves the index with exactly
\* the contents the operation before it left persisted.
C17_PersistenceAcrossRestart ==
  (op = "init" /\ ~updated /\ preDir /\ Ended) =>
    /\ index = preIndex
    /\ dirExists
    /\ ~authCalled
    /\ ~fetchCalled

\* a populated index was reopened
C17_Witness ==
  /\ op = "init"
  /\ ~updated
  /\ preDir
  /\ Ended
  /\ outcome = "returned"
  /\ preIndex # <<>>
  /\ index = preIndex

(* ---------------- C13 ---------------- *)
\* C13: every item of the list whose date cannot be parsed (an empty date
\* included) and that has an id comes back as a Document of the batch
\* with no timestamp and the raw date string as its date_str.
C13_UnparsableDateKept ==
  Normalized =>
    \A k \in 1..Len(email_data_list) :
      LET email_data == email_data_list[k] IN
      (email_data.date \notin {DateHeader(t) : t \in Ticks}
         /\ email_data.id # "") =>
        \E i \in 1..Len(documents) :
          /\ doc_ids[i] = email_data.id
          /\ documents[i].metadata.message_id = email_data.id
          /\ documents[i].metadata.timestamp = <<>>
          /\ documents[i].metadata.date_str = email_data.date
          /\ documents[i].page_content.date_str = email_data.date
          /\ documents[i].page_content.body = email_data.body

\* a malformed and an empty date in one batch, both kept
C13_Witness ==
  /\ Normalized
  /\ Len(email_data_list) = 2
  /\ email_data_list[1].date = GarbageDate
  /\ email_data_list[2].date = <<>>
  /\ email_data_list[1].id = "m1"
  /\ email_data_list[2].id = "m2"
  /\ Len(documents) = 2
  /\ documents[1].metadata.timestamp = <<>>
  /\ documents[2].metadata.date_str = <<>>

(* ---------------- C14 ---------------- *)
\* C14 as stated: an item is skipped exactly when its body is empty or
\* its id is empty. page_content is never empty, so an item with an empty
\* body and an id is kept.
C14_SkipsEmptyBodyOrId ==
  Normalized =>
    /\ doc_ids =
         [k \in 1..Len(SelectSeq(email_data_list,
                                  LAMBDA e : e.body # "" /\ e.id # "")) |->
            SelectSeq(email_data_list,
                      LAMBDA e : e.body # "" /\ e.id # "")[k].id]
    /\ \A i \in 1..Len(documents) :
         documents[i].page_content.body # "" /\ doc_ids[i] # ""

(* ---------------- C16 ---------------- *)
\* C16: whatever the list, the Documents returned are those of the items
\* the validation keeps, all of them, in the order of the list, and
\* doc_ids are their ids.
C16_SkipNeverAborts ==
  Normalized =>
    LET kept == SelectSeq(email_data_list, KeepsItem) IN
    /\ documents = [i \in 1..Len(kept) |-> MakeDocument(kept[i])]
    /\ doc_ids = [i \in 1..Len(kept) |-> kept[i].id]

\* a skipped item between two kept ones
C16_Witness ==
  /\ Normalized
  /\ Len(email_data_list) = 3
  /\ email_data_list[1].id = "m2"
  /\ email_data_list[2].id = ""
  /\ email_data_list[3].id = "m1"
  /\ doc_ids = <<"m2", "m1">>
  /\ documents[2].metadata.message_id = "m1"

(* ---------------- C19 ---------------- *)
\* C19: whatever the listing and the per-message calls do, what
\* fetch_emails_for_embedding returns is a list, never None: the empty
\* list when listing fails, when nothing matches and when the processing
\* raises, and the structured messages that could be retrieved otherwise.
C19_HarvesterReturnsList ==
  Fetched =>
    /\ returned # PyNone
    /\ IsPyList(returned)
    /\ (~args[2] \/ args[4]) => returned = PyList(<<>>)
    /\ \A k \in 1..Len(ItemsOf(returned)) :
         /\ ItemsOf(returned)[k].id \in args[3]
         /\ Matches(args[1], ItemsOf(returned)[k].id)

\* the listing failed and the harvester returned the empty list
C19_Witness ==
  /\ Fetched
  /\ ~args[2]
  /\ returned = PyList(<<>>)

(* ---------------- C15 ---------------- *)
\* C15 as stated: when a rebuild or an update has harvested and written
\* without error, the Documents inserted plus the items the normalizer
\* counted as skipped are as many as the messages listed for the query.
\* A listed message get_message cannot retrieve is left out by the
\* harvester and counted nowhere.
C15_SkipAccounting ==
  (Ended /\ fetchCalled /\ outcome = "returned"
     /\ faults \cap {"fetch", "store"} = {}) =>
    Len(Made.documents) + Made.skipped_count
      = Cardinality({id \in Ids : Matches(query, id)})

(* ---------------- C12 ---------------- *)
\* C12 as stated: with the self-query retriever, a question whose filter
\* cannot be constructed is answered with the Documents the standard
\* retriever returns for it, and the tool returns no error. The code
\* falls back only when the retriever cannot be created, so the tool
\* returns its error string.
C12_SelfQueryFallback ==
  (Invoked /\ retriever.kind = "self_query" /\ args[2] = FilterFailure
     /\ args[3]) =>
    /\ returned # ToolError
    /\ returned =
         ToolAnswer(Retrieve(get_email_standard_retriever(index), index,
                             args[1], args[2])[2])

(* ---------------- C18 ---------------- *)
\* C18: whichever retriever the agent has (standard, self-query, or the
\* standard one the failed construction falls back to), the context of an
\* answer holds at most NUMBER_OF_EMAILS_RETRIEVED Documents of the index,
\* nearer ones first, and is empty when no entry matches; a question
\* that matches nothing is answered, not refused.
C18_RetrievalBound ==
  Invoked =>
    LET q == args[1]
        filter == IF retriever.kind = "self_query" /\ args[2] # FilterFailure
                  THEN args[2][2] ELSE NoFilter
        matching == {i \in 1..Len(index) : MatchesFilter(index[i].doc, filter)}
    IN /\ returned # ToolError =>
            LET context == returned[2] IN
            /\ Len(context) <= NUMBER_OF_EMAILS_RETRIEVED
            /\ Len(context) <= Cardinality(matching)
            /\ \A r \in 1..Len(context) :
                 \E i \in matching : index[i].doc = context[r]
            /\ \A r1, r2 \in 1..Len(context) :
                 r1 < r2 => Dist(q, context[r1].metadata.message_id)
                              < Dist(q, context[r2].metadata.message_id)
            /\ matching = {} => context = <<>>
       /\ (matching = {} /\ args[3]
              /\ ~(retriever.kind = "self_query" /\ args[2] = FilterFailure))
            => returned = ToolAnswer(<<>>)

\* the store holds more Documents than the bound and the fallback
\* retriever returns exactly the bound
C18_Witness ==
  /\ Invoked
  /\ retriever.fallback
  /\ Len(index) > NUMBER_OF_EMAILS_RETRIEVED
  /\ returned # ToolError
  /\ Len(returned[2]) = NUMBER_OF_EMAILS_RETRIEVED

(* ---------------- C20 ---------------- *)
\* C20 as stated: when the agent is created again after a successful
\* manual update cleared its cache, the index it is given holds every
\* Document the persisted index held when the update completed. With
\* config.REBUILD_EMAIL_VECTOR_STORE set the initialization discards
\* that index and harvests anew.
C20_NextQueryUsesUpdatedIndex ==
  (afterUpdate /\ Ended /\ outcome = "returned") =>
    \A i \in 1..Len(preIndex) : HasId(index, preIndex[i].id)

(* ---------------- C30 ---------------- *)
\* s is t with some of its elements left out
RECURSIVE IsSubsequence(_, _)
IsSubsequence(s, t) ==
  IF s = <<>> THEN TRUE
  ELSE IF t = <<>> THEN FALSE
  ELSE IF Head(s) = Head(t) THEN IsSubsequence(Tail(s), Tail(t))
  ELSE IsSubsequence(s, Tail(t))

\* C30: the two lists the normalizer returns are aligned: they are equally
\* long, the i-th id is not empty and is the message_id of the i-th
\* Document, and the ids stand in the order of the input items.
C30_AlignedLists ==
  Normalized =>
    /\ Len(documents) = Len(doc_ids)
    /\ \A i \in 1..Len(doc_ids) :
         /\ doc_ids[i] # ""
         /\ documents[i].metadata.message_id = doc_ids[i]
    /\ IsSubsequence(doc_ids,
                      [k \in 1..Len(email_data_list) |-> email_data_list[k].id])

\* an item without id ahead of two items that are kept
C30_Witness ==
  /\ Normalized
  /\ Len(email_data_list) = 3
  /\ email_data_list[1].id = ""
  /\ doc_ids = <<"m1", "m2">>
  /\ Len(documents) = 2
  /\ documents[1].metadata.message_id = "m1"

(* ---------------- C24 ---------------- *)
\* C24: an initialization that is over either returned with a store
\* object bound (never None) or halted the application with an error
\* shown; a rebuild without downloader functions or without a Gmail
\* service halted.
C24_NeverReturnsNullStore ==
  (Ended /\ op \in {"rebuild", "init"}) =>
    /\ \/ outcome = "returned" /\ storeObject = "Chroma"
       \/ outcome = "halted" /\ notice = "error"
    /\ (op = "rebuild"
          /\ faults \cap {"auth", "auth_raise", "unavailable"} # {}) =>
         outcome = "halted"

\* a rebuild halted because Gmail authentication failed
C24_Witness ==
  /\ Ended
  /\ op = "rebuild"
  /\ "auth" \in faults
  /\ outcome = "halted"
  /\ notice = "error"
  /\ storeObject = "None"

C26_UpdateNeverRaises ==
  (Ended /\ op = "manual") =>
    /\ outcome = "returned"
    /\ result.ok \in BOOLEAN
    /\ result # NoResult
    /\ faults \cap {"load", "unavailable", "auth_raise", "store"} # {}
         => result = Failure("error")

\* the authentication raised inside the update
C26_Witness ==
  /\ Ended
  /\ op = "manual"
  /\ "auth_raise" \in faults
  /\ outcome = "returned"
  /\ result = Failure("error")

C28_ReturnsEveryPage ==
  (Listed /\ args[2] = 0) => returned = PyList(AllMessages(args[1]))

(* ---------------- C22 ---------------- *)
\* C22: when the token file holds expired credentials and the refresh
\* fails, the call leaves usable credentials in the token file and the
\* service it returns, if any, is built from valid credentials.
C22_ReauthenticatesInSameCall ==
  (Authenticated /\ args[1] = "expired" /\ ~args[3]) =>
    /\ token_file = "valid"
    /\ returned[1] = "service" => returned[2] = "valid"

(* ---------------- C27 ---------------- *)
\* C27: after a call of the email tool or of the handbook tool, the
\* session holds None when the input was rejected, when the chain raised
\* and when nothing was retrieved, and the Documents this call retrieved
\* otherwise, whatever an earlier call had left there.
C27_ContextNeverStale ==
  RagInvoked =>
    LET input_dict == args[2]
        response == args[3]
        retrieved == input_dict # "other" /\ response # <<"raise">>
                       /\ ~Falsy(response[2])
    IN /\ retrieved => last_used_context = response[2]
       /\ ~retrieved => last_used_context = PyNone

\* the chain of the handbook tool raised in a session that held the
\* Documents of an earlier answer, and the session holds None
C27_Witness ==
  /\ RagInvoked
  /\ args[1] = "cate_handbook_retriever"
  /\ args[3] = <<"raise">>
  /\ args[4] = PyList(<<"doc1">>)
  /\ last_used_context = PyNone

(* ---------------- C21 ---------------- *)
\* C21: asked after an answer of a tool that retrieves nothing, or after
\* a direct answer, get_last_context says that no context was stored.
C21_ContextOfPrecedingAnswer ==
  (ContextAsked /\ last_answer \in NonRagTools \cup {"direct"}) =>
    returned = NoContextStored

====
